---- MODULE Spec2Model ----
(***************************************************************************)
(* benchmark_utils/init_solver.py: the OPTIMIZERS table and the two entry  *)
(* points get_grad_op and initialize_opt.                                  *)
(*                                                                         *)
(* Python values are records with a cls field.  An ndarray is kept         *)
(* symbolically: how it was filled, its shape and dtype, and the operator  *)
(* methods applied to it so far (via).  A call of a library constructor is *)
(* a record of the class and of the keyword arguments it received, in the  *)
(* order Python evaluates them.  The caller's two dictionaries live in a   *)
(* store, so that a mutation through an alias is visible to the caller.    *)
(***************************************************************************)
EXTENDS Integers, Sequences, FiniteSets, TLC

VARIABLES
    heap,       \* the caller's dictionary objects: [opt |-> dict, metric |-> dict]
    grad_op,    \* what the last get_grad_op call returned (None before any call)
    made_with,  \* the grad_formulation that call was given
    last,       \* the last entry-point call: arguments, constructor calls, outcome
    prev        \* the initialize_opt call before last, when last repeats it

vars == <<heap, grad_op, made_with, last, prev>>

----------------------------------------------------------------------------
\* Bounds of the model

MaxCoils == 2

----------------------------------------------------------------------------
\* Python values

None == [cls |-> "NoneType"]
Str(s) == [cls |-> "str", v |-> s]
Float(s) == [cls |-> "float", v |-> s]
Bool(b) == [cls |-> "bool", v |-> b]
Ref(at) == [cls |-> "dict", at |-> at]

EmptyDict == [k \in {} |-> None]

\* the order in which ** expands the keys of a dictionary
KeyOrder ==
    <<"sigma_bar", "auto_iterate", "lambda_param", "cost",
      "metric_call_period", "num_check">>

Items(d) ==
    LET ks == SelectSeq(KeyOrder, LAMBDA k : k \in DOMAIN d)
    IN  [i \in 1..Len(ks) |-> <<ks[i], d[ks[i]]>>]

\* dict.pop(key, default): the value returned, and the dictionary left
PopValue(d, key, default) == IF key \in DOMAIN d THEN d[key] ELSE default
PopRest(d, key) == [k \in DOMAIN d \ {key} |-> d[k]]

HasAttr(obj, name) == name \in DOMAIN obj

\* a keyword-argument list binds each name once
KwNames(kw) == {kw[i][1] : i \in DOMAIN kw}
Distinct(kw) == \A i, j \in DOMAIN kw : kw[i][1] = kw[j][1] => i = j
Kw(kw, key) == kw[CHOOSE i \in DOMAIN kw : kw[i][1] = key][2]

----------------------------------------------------------------------------
\* numpy

Zeros(shape, dtype) ==
    [cls |-> "ndarray", fill |-> "zeros", shape |-> shape, dtype |-> dtype,
     via |-> <<>>]

Squeeze(a) == [a EXCEPT !.shape = SelectSeq(@, LAMBDA n : n # 1)]

\* operator.op(a), operator.adj_op(a)
Op(operator, a) == [a EXCEPT !.via = Append(@, <<"op", operator>>)]
AdjOp(operator, a) == [a EXCEPT !.via = Append(@, <<"adj_op", operator>>)]

----------------------------------------------------------------------------
\* The library's classes, as far as this file reads their instances

\* inv_spec_rad is a number the library computes from the operators it was
\* given; it is kept as the name of that number
GradAnalysisObj(kw) ==
    [cls |-> "GradAnalysis", fourier_op |-> Kw(kw, "fourier_op"),
     inv_spec_rad |-> Float("inv_spec_rad of GradAnalysis")]

GradSynthesisObj(kw) ==
    [cls |-> "GradSynthesis", fourier_op |-> Kw(kw, "fourier_op"),
     linear_op |-> Kw(kw, "linear_op"),
     inv_spec_rad |-> Float("inv_spec_rad of GradSynthesis")]

\* the instance the nth constructor call of an entry-point call produces
NewObj(cls, kw, nth) == [cls |-> cls, init |-> kw, nth |-> nth]

----------------------------------------------------------------------------
\* OPTIMIZERS

\* OPTIMIZERS with "pogm" given the analysis formulation
OPTIMIZERS_PogmAnalysis ==
    (Str("pogm") :> Str("analysis")) @@ (Str("fista") :> Str("analysis"))
    @@ (Str("condat-vu") :> Str("analysis")) @@ (None :> None)

OPTIMIZERS ==
    (Str("pogm") :> Str("synthesis")) @@ (Str("fista") :> Str("analysis"))
    @@ (Str("condat-vu") :> Str("analysis")) @@ (None :> None)

----------------------------------------------------------------------------
\* get_grad_op

\* get_grad_op raising for a formulation it does not know
get_grad_op_Raises(fourier_op, grad_formulation, linear_op, verbose, kwargs) ==
    IF grad_formulation = Str("analysis")
    THEN LET kw == << <<"fourier_op", fourier_op>>, <<"verbose", verbose>> >>
                   \o Items(kwargs)
         IN  [outcome |-> "returned",
              calls |-> << [cls |-> "GradAnalysis", kw |-> kw] >>,
              ret |-> GradAnalysisObj(kw)]
    ELSE IF grad_formulation = Str("synthesis")
    THEN LET kw == << <<"linear_op", linear_op>>, <<"fourier_op", fourier_op>>,
                      <<"verbose", verbose>> >> \o Items(kwargs)
         IN  [outcome |-> "returned",
              calls |-> << [cls |-> "GradSynthesis", kw |-> kw] >>,
              ret |-> GradSynthesisObj(kw)]
    ELSE [outcome |-> "ValueError", calls |-> <<>>, ret |-> None]

get_grad_op(fourier_op, grad_formulation, linear_op, verbose, kwargs) ==
    IF grad_formulation = Str("analysis")
    THEN LET kw == << <<"fourier_op", fourier_op>>, <<"verbose", verbose>> >>
                   \o Items(kwargs)
         IN  [outcome |-> "returned",
              calls |-> << [cls |-> "GradAnalysis", kw |-> kw] >>,
              ret |-> GradAnalysisObj(kw)]
    ELSE IF grad_formulation = Str("synthesis")
    THEN LET kw == << <<"linear_op", linear_op>>, <<"fourier_op", fourier_op>>,
                      <<"verbose", verbose>> >> \o Items(kwargs)
         IN  [outcome |-> "returned",
              calls |-> << [cls |-> "GradSynthesis", kw |-> kw] >>,
              ret |-> GradSynthesisObj(kw)]
    ELSE [outcome |-> "returned", calls |-> <<>>, ret |-> None]

----------------------------------------------------------------------------
\* initialize_opt

\* DefaultXInit without np.squeeze
DefaultXInit_NoSqueeze(x_init, g) ==
    IF x_init = None
    THEN Zeros(<<g.fourier_op.n_coils>> \o g.fourier_op.shape, "complex64")
    ELSE x_init

\* lines 55-61: the initial value of the reconstruction
DefaultXInit(x_init, g) ==
    IF x_init = None
    THEN Squeeze(Zeros(<<g.fourier_op.n_coils>> \o g.fourier_op.shape,
                       "complex64"))
    ELSE x_init

\* lines 63-68: the local variables x_init and alpha_init after the
\* if/elif/elif; a name that no branch assigned is not in the record
InitialValues(x_init, g, linear_op, synthesis_init) ==
    IF ~synthesis_init /\ HasAttr(g, "linear_op")
    THEN [x_init |-> x_init, alpha_init |-> Op(g.linear_op, x_init)]
    ELSE IF synthesis_init /\ ~HasAttr(g, "linear_op")
    THEN [x_init |-> AdjOp(linear_op, x_init)]
    ELSE IF ~synthesis_init /\ HasAttr(g, "linear_op")
    THEN [x_init |-> x_init, alpha_init |-> x_init]
    ELSE [x_init |-> x_init]

\* lines 69-70: `d or dict()` is d itself when d is a non-empty dictionary,
\* and a new empty dictionary otherwise
OrDict(d, store, fresh) ==
    IF d # None /\ DOMAIN store[d.at] # {} THEN d ELSE Ref(fresh)

\* the call cls(**kw): Python refuses a keyword bound twice
Construct(cls, kw, calls, store) ==
    IF Distinct(kw)
    THEN [outcome |-> "returned",
          calls |-> Append(calls, [cls |-> cls, kw |-> kw]),
          ret |-> NewObj(cls, kw, Len(calls) + 1),
          store |-> store]
    ELSE [outcome |-> "TypeError", calls |-> calls, ret |-> None,
          store |-> store]

\* lines 74-87
BranchPOGM(loc, a, beta, opt_kwargs, metric_kwargs, store) ==
    IF ~HasAttr(loc, "alpha_init")
    THEN [outcome |-> "UnboundLocalError", calls |-> <<>>, ret |-> None,
          store |-> store]
    ELSE LET d0 == store[opt_kwargs.at]
             sigma_bar == PopValue(d0, "sigma_bar", Float("0.96"))
             d1 == PopRest(d0, "sigma_bar")
             auto_iterate == PopValue(d1, "auto_iterate", Bool(FALSE))
             d2 == PopRest(d1, "auto_iterate")
             st == [store EXCEPT ![opt_kwargs.at] = d2]
             kw == << <<"u", loc.alpha_init>>, <<"x", loc.alpha_init>>,
                      <<"y", loc.alpha_init>>, <<"z", loc.alpha_init>>,
                      <<"grad", a.grad_op>>, <<"prox", a.prox_op>>,
                      <<"linear", a.linear_op>>, <<"beta_param", beta>>,
                      <<"sigma_bar", sigma_bar>>,
                      <<"auto_iterate", auto_iterate>> >>
                   \o Items(st[opt_kwargs.at]) \o Items(st[metric_kwargs.at])
         IN  Construct("POGM", kw, <<>>, st)

\* lines 88-99
BranchFista(loc, a, beta, opt_kwargs, metric_kwargs, store) ==
    LET d0 == store[opt_kwargs.at]
        lambda_param == PopValue(d0, "lambda_param", Float("1.0"))
        d1 == PopRest(d0, "lambda_param")
        auto_iterate == PopValue(d1, "auto_iterate", Bool(FALSE))
        d2 == PopRest(d1, "auto_iterate")
        st == [store EXCEPT ![opt_kwargs.at] = d2]
        kw == << <<"x", loc.x_init>>, <<"grad", a.grad_op>>,
                 <<"prox", a.prox_op>>, <<"linear", a.linear_op>>,
                 <<"beta_param", beta>>, <<"lambda_param", lambda_param>>,
                 <<"auto_iterate", auto_iterate>> >>
              \o Items(st[opt_kwargs.at]) \o Items(st[metric_kwargs.at])
    IN  Construct("ForwardBackward", kw, <<>>, st)

\* BranchCondat with y_init computed from x_init as it was before line 66
BranchCondat_Unconverted(loc, a, opt_kwargs, metric_kwargs, store) ==
    LET y_init == Op(a.linear_op, DefaultXInit(a.x_init, a.grad_op))
        identity == Construct("Identity", <<>>, <<>>, store)
        kw == << <<"x", loc.x_init>>, <<"y", y_init>>, <<"grad", a.grad_op>>,
                 <<"prox", identity.ret>>, <<"prox_dual", a.prox_op>>,
                 <<"linear", a.linear_op>> >>
              \o Items(store[opt_kwargs.at]) \o Items(store[metric_kwargs.at])
    IN  Construct("Condat", kw, identity.calls, store)

\* lines 100-113
BranchCondat(loc, a, opt_kwargs, metric_kwargs, store) ==
    LET y_init == Op(a.linear_op, loc.x_init)
        identity == Construct("Identity", <<>>, <<>>, store)
        kw == << <<"x", loc.x_init>>, <<"y", y_init>>, <<"grad", a.grad_op>>,
                 <<"prox", identity.ret>>, <<"prox_dual", a.prox_op>>,
                 <<"linear", a.linear_op>> >>
              \o Items(store[opt_kwargs.at]) \o Items(store[metric_kwargs.at])
    IN  Construct("Condat", kw, identity.calls, store)

\* Selected with the last elif written as else
Selected_ElseCondat(opt_name) ==
    IF opt_name = Str("pogm") THEN "POGM"
    ELSE IF opt_name = Str("fista") THEN "ForwardBackward"
    ELSE "Condat"

\* Selected with "fista" sent to the first branch
Selected_FistaAsPogm(opt_name) ==
    IF opt_name \in {Str("pogm"), Str("fista")} THEN "POGM"
    ELSE IF opt_name = Str("condat-vu") THEN "Condat"
    ELSE "raise"

\* lines 73, 88, 100, 115: the branch the if/elif chain takes
Selected(opt_name) ==
    IF opt_name = Str("pogm") THEN "POGM"
    ELSE IF opt_name = Str("fista") THEN "ForwardBackward"
    ELSE IF opt_name = Str("condat-vu") THEN "Condat"
    ELSE "raise"

\* lines 55-117; a holds the arguments, h the caller's dictionaries
initialize_opt(a, h) ==
    LET x0 == DefaultXInit(a.x_init, a.grad_op)
        loc == InitialValues(x0, a.grad_op, a.linear_op, a.synthesis_init)
        store == h @@ [local_opt |-> EmptyDict, local_metric |-> EmptyDict]
        opt_kwargs == OrDict(a.opt_kwargs, store, "local_opt")
        metric_kwargs == OrDict(a.metric_kwargs, store, "local_metric")
        beta == a.grad_op.inv_spec_rad
        r == CASE Selected(a.opt_name) = "POGM" ->
                    BranchPOGM(loc, a, beta, opt_kwargs, metric_kwargs, store)
               [] Selected(a.opt_name) = "ForwardBackward" ->
                    BranchFista(loc, a, beta, opt_kwargs, metric_kwargs, store)
               [] Selected(a.opt_name) = "Condat" ->
                    BranchCondat(loc, a, opt_kwargs, metric_kwargs, store)
               [] OTHER ->
                    [outcome |-> "ValueError", calls |-> <<>>, ret |-> None,
                     store |-> store]
    IN  [outcome |-> r.outcome, calls |-> r.calls, ret |-> r.ret,
         store |-> r.store, loc |-> loc]

----------------------------------------------------------------------------
\* The values the entry points are called with

LinOps == {[cls |-> "LinearOp", name |-> n] : n \in {"W1", "W2"}}
ProxOp == [cls |-> "ProxOp", name |-> "P"]
FourierOps ==
    {[cls |-> "FourierOp", n_coils |-> n, shape |-> s] :
        n \in 1..MaxCoils, s \in {<<2, 2>>, <<1, 2>>}}
Formulations == {Str("analysis"), Str("synthesis"), Str("other"), None}
OptNames == {Str("pogm"), Str("fista"), Str("condat-vu"), Str("sgd"), None}
CallerArray ==
    [cls |-> "ndarray", fill |-> "data", shape |-> <<2, 2>>,
     dtype |-> "complex64", via |-> <<>>]

\* a dictionary holds, under each of its keys, the caller's value for it; the
\* keys are keyword parameters of the constructors that initialize_opt does
\* not bind itself (but for the three it pops), and the two dictionaries name
\* different parameters
CallerValue(k) == [cls |-> "caller", v |-> k]
DictOver(keys) == {[k \in ks |-> CallerValue(k)] : ks \in SUBSET keys}
GradKwargs == DictOver({"num_check"})
OptKwargs == DictOver({"sigma_bar", "auto_iterate", "lambda_param", "cost"})
MetricKwargs == DictOver({"metric_call_period"})

NoCall == [fn |-> "none"]

----------------------------------------------------------------------------
\* The entry points as actions.  A run builds a gradient operator, hands it
\* to initialize_opt, and may call initialize_opt again with the same
\* arguments.  Neither function keeps anything between calls, so a call made
\* later in a longer run is a call of some run of this form.

GetGradOp ==
    /\ last.fn \in {"none", "get_grad_op"}
    /\ \E fourier_op \in FourierOps, grad_formulation \in Formulations,
       linear_op \in LinOps, verbose \in BOOLEAN, kwargs \in GradKwargs :
        LET r == get_grad_op(fourier_op, grad_formulation, linear_op,
                             Bool(verbose), kwargs)
        IN  /\ grad_op' = r.ret
            /\ made_with' = grad_formulation
            /\ last' = [fn |-> "get_grad_op",
                        args |-> [fourier_op |-> fourier_op,
                                  grad_formulation |-> grad_formulation,
                                  linear_op |-> linear_op,
                                  verbose |-> Bool(verbose),
                                  kwargs |-> kwargs],
                        outcome |-> r.outcome, calls |-> r.calls,
                        ret |-> r.ret]
            /\ prev' = NoCall
            /\ UNCHANGED heap

\* one call of initialize_opt on the dictionaries h
Invoke(a, h) ==
    LET r == initialize_opt(a, h)
    IN  /\ last' = [fn |-> "initialize_opt", args |-> a, before |-> h,
                    loc |-> r.loc, outcome |-> r.outcome, calls |-> r.calls,
                    ret |-> r.ret]
        /\ heap' = [opt |-> r.store.opt, metric |-> r.store.metric]

\* the caller builds its dictionaries (or passes None) and calls with the
\* operator get_grad_op gave it; grad_op is an operator (lines 36-37)
InitializeOpt ==
    /\ last.fn = "get_grad_op"
    /\ grad_op # None
    /\ \E opt_name \in OptNames, linear_op \in LinOps,
          x_init \in {None, CallerArray}, synthesis_init \in BOOLEAN,
          od \in OptKwargs \cup {None}, md \in MetricKwargs \cup {None} :
            /\ Invoke([opt_name |-> opt_name, grad_op |-> grad_op,
                       linear_op |-> linear_op, prox_op |-> ProxOp,
                       x_init |-> x_init, synthesis_init |-> synthesis_init,
                       opt_kwargs |-> IF od = None THEN None ELSE Ref("opt"),
                       metric_kwargs |->
                           IF md = None THEN None ELSE Ref("metric")],
                      [opt |-> IF od = None THEN EmptyDict ELSE od,
                       metric |-> IF md = None THEN EmptyDict ELSE md])
    /\ prev' = NoCall
    /\ UNCHANGED <<grad_op, made_with>>

\* the caller calls again with the same arguments, the same objects
InitializeOptAgain ==
    /\ last.fn = "initialize_opt"
    /\ Invoke(last.args, heap)
    /\ prev' = last
    /\ UNCHANGED <<grad_op, made_with>>

Init ==
    /\ heap = [opt |-> EmptyDict, metric |-> EmptyDict]
    /\ grad_op = None
    /\ made_with = None
    /\ last = NoCall
    /\ prev = NoCall

Next == GetGradOp \/ InitializeOpt \/ InitializeOptAgain

Spec == Init /\ [][Next]_vars

----------------------------------------------------------------------------
\* Vocabulary of the properties

ValidNames == {Str("pogm"), Str("fista"), Str("condat-vu")}
OptimizerClasses == {"POGM", "ForwardBackward", "Condat"}
InitialVariables == {"u", "x", "y", "z"}

Called == last.fn = "initialize_opt"

\* the positions in a call log at which an optimizer was constructed
OptimizerCalls(calls) ==
    {i \in DOMAIN calls : calls[i].cls \in OptimizerClasses}

\* how often a keyword argument list holds the pair <<k, v>>
Times(kw, k, v) == Cardinality({i \in DOMAIN kw : kw[i] = <<k, v>>})

GradHasLinearOp == "linear_op" \in DOMAIN last.args.grad_op

\* the value initialize_opt starts from: the caller's x_init, or zeros
StartValue ==
    IF last.args.x_init # None THEN last.args.x_init
    ELSE [cls |-> "ndarray", fill |-> "zeros",
          shape |-> SelectSeq(<<last.args.grad_op.fourier_op.n_coils>>
                                  \o last.args.grad_op.fourier_op.shape,
                              LAMBDA n : n # 1),
          dtype |-> "complex64", via |-> <<>>]

\* the dictionary a keyword parameter of the last call stood for
Passed(arg, at) == IF arg = None THEN EmptyDict ELSE last.before[at]

----------------------------------------------------------------------------
\* C1: a call whose opt_name is none of "pogm", "fista", "condat-vu" (None
\* included) ends in the invalid-name error and constructs no optimizer.
C1_InvalidNameRaises ==
    (Called /\ last.args.opt_name \notin ValidNames)
        => /\ last.outcome = "ValueError"
           /\ OptimizerCalls(last.calls) = {}
           /\ last.ret = None

C1_Witness ==
    /\ Called
    /\ last.args.opt_name = None
    /\ last.outcome = "ValueError"
    /\ last.args.x_init = None
    /\ last.args.synthesis_init

\* C2 (as stated): for every valid opt_name, either value of synthesis_init
\* and a grad_op with or without linear_op, the call reaches the constructor
\* of the selected optimizer with every initial value it passes defined.
C2_OnlyInvalidNameFails ==
    (Called /\ last.args.opt_name \in ValidNames)
        => /\ last.outcome = "returned"
           /\ \E i \in OptimizerCalls(last.calls) :
                 last.calls[i].cls = Selected(last.args.opt_name)

\* C3: a successful call constructs exactly one optimizer, POGM for "pogm",
\* ForwardBackward for "fista", Condat for "condat-vu", and returns the
\* object that constructor produced.
C3_Dispatch ==
    (Called /\ last.outcome = "returned")
        => /\ Cardinality(OptimizerCalls(last.calls)) = 1
           /\ \A i \in OptimizerCalls(last.calls) :
                 /\ last.args.opt_name = Str("pogm")
                        => last.calls[i].cls = "POGM"
                 /\ last.args.opt_name = Str("fista")
                        => last.calls[i].cls = "ForwardBackward"
                 /\ last.args.opt_name = Str("condat-vu")
                        => last.calls[i].cls = "Condat"
                 /\ last.args.opt_name \in ValidNames
                 /\ last.ret.cls = last.calls[i].cls
                 /\ last.ret.init = last.calls[i].kw
                 /\ last.ret.nth = i

C3_Witness ==
    /\ Called
    /\ last.outcome = "returned"
    /\ last.args.opt_name = Str("condat-vu")
    /\ Len(last.calls) = 2
    /\ last.ret.cls = "Condat"

\* the operators whose methods a call may apply: its linear_op argument and
\* the linear_op of its grad_op
OperatorsOfCall ==
    {last.args.linear_op}
        \cup (IF GradHasLinearOp THEN {last.args.grad_op.linear_op} ELSE {})

\* the three forms C4 names: the value, op of it, adj_op of it
NamedForms ==
    {StartValue}
        \cup {Op(w, StartValue) : w \in OperatorsOfCall}
        \cup {AdjOp(w, StartValue) : w \in OperatorsOfCall}

\* C4 (as stated): the initial value is the caller's x_init, or, when x_init
\* is None, a complex64 zero array of shape (n_coils, *shape) squeezed; every
\* initial variable an optimizer constructor receives is that value, op of
\* it, or adj_op of it.
C4_InitialValue ==
    Called =>
        \A i \in OptimizerCalls(last.calls) :
            \A j \in DOMAIN last.calls[i].kw :
                last.calls[i].kw[j][1] \in InitialVariables
                    => last.calls[i].kw[j][2] \in NamedForms

\* C4 (amended): as C4, with one more form: the y of Condat is
\* linear_op.op of linear_op.adj_op of the value when synthesis_init is True
\* and grad_op has no linear_op.
C4_InitialValueAmended ==
    Called =>
        \A i \in OptimizerCalls(last.calls) :
            \A j \in DOMAIN last.calls[i].kw :
                last.calls[i].kw[j][1] \in InitialVariables =>
                    \/ last.calls[i].kw[j][2] \in NamedForms
                    \/ /\ last.calls[i].cls = "Condat"
                       /\ last.calls[i].kw[j][1] = "y"
                       /\ last.args.synthesis_init
                       /\ ~GradHasLinearOp
                       /\ last.calls[i].kw[j][2]
                             = Op(last.args.linear_op,
                                  AdjOp(last.args.linear_op, StartValue))

C4_Witness ==
    /\ Called
    /\ last.args.x_init = None
    /\ last.args.grad_op.fourier_op.n_coils = 1
    /\ last.args.grad_op.fourier_op.shape = <<1, 2>>
    /\ last.outcome = "returned"
    /\ last.ret.cls = "Condat"
    /\ Kw(last.ret.init, "x").shape = <<2>>
    /\ Len(Kw(last.ret.init, "y").via) = 2

\* C5 (as stated): a second call with the same arguments and the same
\* dictionary objects issues the same constructor call, and a call leaves
\* the caller's opt_kwargs and metric_kwargs as they were.
C5_NoInternalState ==
    /\ (Called /\ prev.fn = "initialize_opt")
           => (last.calls = prev.calls /\ last.outcome = prev.outcome)
    /\ Called => heap = last.before

\* what C6 says of the keyword arguments kw a constructor of class cls got
Forwarded(kw, cls) ==
    LET od == Passed(last.args.opt_kwargs, "opt")
        md == Passed(last.args.metric_kwargs, "metric")
        Default(k, v) ==
            IF k \in DOMAIN od THEN Times(kw, k, v) = 0
            ELSE Times(kw, k, v) = 1
    IN  /\ \A k \in DOMAIN od : Times(kw, k, od[k]) = 1
        /\ \A k \in DOMAIN md : Times(kw, k, md[k]) = 1
        /\ \A k \in DOMAIN od \cup DOMAIN md :
              Cardinality({i \in DOMAIN kw : kw[i][1] = k}) = 1
        /\ cls = "POGM" => /\ Default("sigma_bar", Float("0.96"))
                           /\ Default("auto_iterate", Bool(FALSE))
        /\ cls = "ForwardBackward"
              => /\ Default("lambda_param", Float("1.0"))
                 /\ Default("auto_iterate", Bool(FALSE))

\* C6 (as stated): for every valid opt_name each pair of opt_kwargs and of
\* metric_kwargs reaches the selected constructor exactly once, and the
\* defaults of sigma_bar, lambda_param and auto_iterate are passed exactly
\* when the caller's opt_kwargs has no such key.
C6_ForwardsKwargs ==
    (Called /\ last.args.opt_name \in ValidNames)
        => \E i \in OptimizerCalls(last.calls) :
              /\ last.calls[i].cls = Selected(last.args.opt_name)
              /\ Forwarded(last.calls[i].kw, last.calls[i].cls)

\* C7 (as stated): with linear_op on grad_op, alpha_init is
\* grad_op.linear_op.op(x_init) when synthesis_init is False and x_init when
\* it is True; without it, x_init becomes linear_op.adj_op(x_init) when
\* synthesis_init is True and stays as it is when False.
C7_FourCombinations ==
    Called =>
        /\ (GradHasLinearOp /\ ~last.args.synthesis_init)
              => /\ "alpha_init" \in DOMAIN last.loc
                 /\ last.loc.alpha_init
                        = Op(last.args.grad_op.linear_op, StartValue)
        /\ (GradHasLinearOp /\ last.args.synthesis_init)
              => /\ "alpha_init" \in DOMAIN last.loc
                 /\ last.loc.alpha_init = StartValue
        /\ (~GradHasLinearOp /\ last.args.synthesis_init)
              => last.loc.x_init = AdjOp(last.args.linear_op, StartValue)
        /\ (~GradHasLinearOp /\ ~last.args.synthesis_init)
              => last.loc.x_init = StartValue

\* C8: for every name of OPTIMIZERS but None, get_grad_op with the
\* formulation OPTIMIZERS gives returns GradSynthesis carrying linear_op for
\* "pogm" and GradAnalysis for "fista" and "condat-vu", and initialize_opt
\* with that name, that operator and synthesis_init False constructs the
\* optimizer without error.
C8_TableConsistent ==
    (/\ Called
     /\ last.args.opt_name \in DOMAIN OPTIMIZERS \ {None}
     /\ made_with = OPTIMIZERS[last.args.opt_name]
     /\ ~last.args.synthesis_init)
        => /\ last.args.opt_name = Str("pogm")
              => /\ last.args.grad_op.cls = "GradSynthesis"
                 /\ GradHasLinearOp
                 /\ last.args.grad_op.linear_op \in LinOps
           /\ last.args.opt_name \in {Str("fista"), Str("condat-vu")}
              => last.args.grad_op.cls = "GradAnalysis"
           /\ last.outcome = "returned"
           /\ \E i \in OptimizerCalls(last.calls) :
                 /\ last.calls[i].cls = Selected(last.args.opt_name)
                 /\ last.ret = NewObj(last.calls[i].cls, last.calls[i].kw, i)

C8_Witness ==
    /\ Called
    /\ last.args.opt_name = Str("pogm")
    /\ made_with = OPTIMIZERS[Str("pogm")]
    /\ ~last.args.synthesis_init
    /\ last.outcome = "returned"
    /\ last.ret.cls = "POGM"

\* the x_init the branches see: converted by adj_op in the one case of
\* lines 65-66
ConvertedX ==
    IF ~GradHasLinearOp /\ last.args.synthesis_init
    THEN AdjOp(last.args.linear_op, StartValue)
    ELSE StartValue

\* C9: Condat receives x = x_init, y = linear_op.op of that same x_init,
\* prox = an Identity built in this call, prox_dual = the caller's prox_op,
\* no beta_param and no auto_iterate of its own; POGM receives one
\* alpha_init as u, x, y and z; POGM and ForwardBackward receive
\* beta_param = grad_op.inv_spec_rad.
C9_ConstructorArguments ==
    Called =>
        \A i \in OptimizerCalls(last.calls) :
            LET kw == last.calls[i].kw
                cls == last.calls[i].cls
            IN  /\ cls = "Condat" =>
                    /\ Kw(kw, "x") = ConvertedX
                    /\ Kw(kw, "y") = Op(last.args.linear_op, Kw(kw, "x"))
                    /\ \E j \in 1..(i - 1) :
                          /\ last.calls[j] = [cls |-> "Identity", kw |-> <<>>]
                          /\ Kw(kw, "prox") = NewObj("Identity", <<>>, j)
                    /\ Kw(kw, "prox_dual") = last.args.prox_op
                    /\ "beta_param" \notin KwNames(kw)
                    /\ "auto_iterate" \in KwNames(kw)
                          => "auto_iterate"
                                \in DOMAIN Passed(last.args.opt_kwargs, "opt")
                /\ cls = "POGM" =>
                    /\ "alpha_init" \in DOMAIN last.loc
                    /\ \A n \in InitialVariables :
                          Kw(kw, n) = last.loc.alpha_init
                    /\ Kw(kw, "beta_param") = last.args.grad_op.inv_spec_rad
                /\ cls = "ForwardBackward" =>
                    Kw(kw, "beta_param") = last.args.grad_op.inv_spec_rad

C9_Witness ==
    /\ Called
    /\ last.outcome = "returned"
    /\ last.ret.cls = "Condat"
    /\ ~GradHasLinearOp
    /\ last.args.synthesis_init
    /\ Kw(last.ret.init, "y").via
          = << <<"adj_op", last.args.linear_op>>,
               <<"op", last.args.linear_op>> >>

\* C10: get_grad_op never raises: "analysis" gives GradAnalysis(fourier_op,
\* verbose, **kwargs) without linear_op, "synthesis" gives
\* GradSynthesis(linear_op, fourier_op, verbose, **kwargs), and any other
\* formulation (None, which OPTIMIZERS gives for None, included) constructs
\* nothing and returns None.
C10_GetGradOp ==
    last.fn = "get_grad_op" =>
        LET a == last.args
            Given(kw, names) ==
                /\ Distinct(kw)
                /\ KwNames(kw) = names \cup DOMAIN a.kwargs
                /\ \A n \in names : Kw(kw, n) = a[n]
                /\ \A n \in DOMAIN a.kwargs : Kw(kw, n) = a.kwargs[n]
        IN  /\ last.outcome = "returned"
            /\ grad_op = last.ret
            /\ a.grad_formulation = Str("analysis") =>
                  /\ Len(last.calls) = 1
                  /\ last.calls[1].cls = "GradAnalysis"
                  /\ Given(last.calls[1].kw, {"fourier_op", "verbose"})
                  /\ last.ret.cls = "GradAnalysis"
                  /\ "linear_op" \notin DOMAIN last.ret
            /\ a.grad_formulation = Str("synthesis") =>
                  /\ Len(last.calls) = 1
                  /\ last.calls[1].cls = "GradSynthesis"
                  /\ Given(last.calls[1].kw,
                           {"linear_op", "fourier_op", "verbose"})
                  /\ last.ret.cls = "GradSynthesis"
                  /\ last.ret.linear_op = a.linear_op
            /\ a.grad_formulation \notin {Str("analysis"), Str("synthesis")}
                  => (last.calls = <<>> /\ last.ret = None)

C10_Witness ==
    /\ last.fn = "get_grad_op"
    /\ last.args.grad_formulation = OPTIMIZERS[None]
    /\ last.args.kwargs # EmptyDict
    /\ last.calls = <<>>
    /\ grad_op = None

====
